---- MODULE Spec2Model ----
(***************************************************************************)
(* Model of the dictation service (src/src/dictation-service.py) and of    *)
(* the microphone monitor (src/src/mic-monitor.py).                        *)
(*                                                                         *)
(* Time is counted in ticks of the wall clock read by time.time(); audio   *)
(* chunks are identified by their arrival number in the parecord stream;   *)
(* the RMS of a chunk is a level in RmsLevels.                             *)
(***************************************************************************)
EXTENDS Integers, Sequences, FiniteSets, TLC

(* ------------------------------ bounds -------------------------------- *)

\* number of non-empty chunks read from parecord in one run
MaxChunks == 6
\* last tick of the clock
MaxTime == 3
\* largest configured pre_record_chunks
MaxPreRecord == 2
\* iterations of the monitor's polling loop in one run
MaxPolls == 3
\* source outputs the audio server lists at one time
MaxOutputs == 2
\* length of the short texts the speech model returns
MaxTextLen == 3

\* ticks one blocking read of the stream may take
ReadTimes == {0, 1}
\* RMS levels of a chunk: below, at and above SILENCE_THRESHOLD
RmsLevels == {0, 1, 2}
\* configured silence_duration and min_speech_duration, in ticks
SilenceDurations == {0, 1}
MinSpeechDurations == {0, 2}

(* --------------------------- program values --------------------------- *)

\* Python's None for silence_start and speech_start
None == -1
\* silence_threshold, as an RMS level: levels 0 and 1 are silence, 2 is voice
SILENCE_THRESHOLD == 1

VARIABLES
    \* DictationService: configuration read in __init__
    SILENCE_DURATION, MIN_SPEECH_DURATION, pre_record_chunks,
    \* DictationService: state tracking
    is_recording, audio_buffer, silence_start, speech_start, audio_ring_buffer,
    \* the parecord child: "none", "running", "exited", "killed"
    parecord_process,
    \* /tmp/dictation-recording, the state file and the PID file exist
    recording_file, state_file, pid_file,
    \* the transcription threads started so far, in order of their start
    tasks,
    \* position of the main thread in run(): "start", "wait", "loop", "exited"
    pc,
    \* exit status of the process once pc = "exited" (None before)
    exit_status,
    \* the messages logged by the main thread
    log,
    \* time.time(), number of non-empty chunks read, RMS of the last chunk
    now, nread, rms,
    \* history: while recording, the arrival time of the first chunk of the
    \* run of below-threshold chunks that the last chunk belongs to (None when
    \* the last chunk was voice, or when not recording)
    quiet_since

VARIABLES
    \* MicrophoneMonitor: the configuration and the state tracking
    config, mic_active, indicator_process,
    \* /tmp/mic-monitor-state and /tmp/mic-indicator-pid exist
    mon_state_file, indicator_pid_file,
    \* the source outputs pactl lists, in its order
    source_outputs,
    \* locals of the monitor's run(): the last poll's result
    is_active, app_info,
    \* position of the monitor: "loop", "exited"
    mpc,
    \* the completed iterations of the monitor's loop, each with the poll's
    \* result, mic_active as the poll found it, and the call the loop made
    iterations,
    \* the messages the monitor logged on errors
    mon_log

VARIABLES
    \* the module flag set by the import of faster_whisper
    FASTER_WHISPER_AVAILABLE,
    \* the paths that exist under model_base_path
    disk,
    \* DictationService.config: its whisper_model and use_faster_whisper
    service_config,
    \* locals of setup_whisper_model
    original_model, use_faster_whisper, model_name, model_path,
    \* DictationService: the loaded model ("unset" before a load succeeded) and
    \* the flag that tells its implementation ("unset" before)
    whisper_model, using_faster_whisper,
    \* history: the calls of WhisperModel(...) and whisper.load_model(...) made
    \* so far, each with the path it was given
    load_calls,
    \* position in setup_whisper_model: "start", "load" (line 403), "openai"
    \* (line 425), "returned", "exited" (sys.exit(1))
    spc

wvars == <<FASTER_WHISPER_AVAILABLE, disk, service_config, original_model,
           use_faster_whisper, model_name, model_path, whisper_model,
           using_faster_whisper, load_calls, spc>>

mvars == <<config, mic_active, indicator_process, mon_state_file,
           indicator_pid_file, source_outputs, is_active, app_info, mpc,
           iterations, mon_log>>

svars == <<SILENCE_DURATION, MIN_SPEECH_DURATION, pre_record_chunks,
           is_recording, audio_buffer, silence_start, speech_start,
           audio_ring_buffer, parecord_process, recording_file, state_file,
           pid_file, tasks, pc, exit_status, log, now, nread, rms, quiet_since>>

(* ------------------------ texts and their checks ---------------------- *)

\* a text is a sequence of one-character strings
LowerLetters ==
    <<"a", "b", "c", "d", "e", "f", "g", "h", "i", "j", "k", "l", "m",
      "n", "o", "p", "q", "r", "s", "t", "u", "v", "w", "x", "y", "z">>
UpperLetters ==
    <<"A", "B", "C", "D", "E", "F", "G", "H", "I", "J", "K", "L", "M",
      "N", "O", "P", "Q", "R", "S", "T", "U", "V", "W", "X", "Y", "Z">>

\* str.lower() on one character
LowerChar(c) ==
    IF \E i \in 1..Len(UpperLetters) : UpperLetters[i] = c
    THEN LowerLetters[CHOOSE i \in 1..Len(UpperLetters) : UpperLetters[i] = c]
    ELSE c

\* str.upper() on one character
UpperChar(c) ==
    IF \E i \in 1..Len(LowerLetters) : LowerLetters[i] = c
    THEN UpperLetters[CHOOSE i \in 1..Len(LowerLetters) : LowerLetters[i] = c]
    ELSE c

\* str.lower()
Lower(text) == [i \in 1..Len(text) |-> LowerChar(text[i])]

\* str.lstrip() and str.rstrip(), the space being the only white space here
RECURSIVE LStrip(_)
LStrip(text) ==
    IF Len(text) > 0 /\ Head(text) = " " THEN LStrip(Tail(text)) ELSE text

RECURSIVE RStrip(_)
RStrip(text) ==
    IF Len(text) > 0 /\ text[Len(text)] = " "
    THEN RStrip(SubSeq(text, 1, Len(text) - 1))
    ELSE text

\* str.strip()
Strip(text) == RStrip(LStrip(text))

\* text.replace(" ", "")
RemoveSpaces(text) == SelectSeq(text, LAMBDA c : c # " ")

\* set(text)
CharSet(text) == {text[i] : i \in 1..Len(text)}

\* the characters of ".,!?;: "
PunctuationChars == {".", ",", "!", "?", ";", ":", " "}

\* noise_patterns of is_valid_transcription
noise_patterns ==
    {<<"t", "h", "a", "n", "k", " ", "y", "o", "u">>,
     <<"t", "h", "a", "n", "k", "s", " ", "f", "o", "r", " ", "w", "a", "t", "c", "h", "i", "n", "g">>,
     <<"s", "u", "b", "s", "c", "r", "i", "b", "e">>,
     <<"b", "y", "e">>,
     <<"m", "u", "s", "i", "c">>,
     <<"[", "m", "u", "s", "i", "c", "]">>,
     <<"a", "p", "p", "l", "a", "u", "s", "e">>,
     <<"[", "a", "p", "p", "l", "a", "u", "s", "e", "]">>,
     <<"f", "o", "r", "e", "i", "g", "n">>,
     <<"[", "f", "o", "r", "e", "i", "g", "n", "]">>,
     <<"b", "l", "a", "n", "k">>,
     <<"[", "b", "l", "a", "n", "k", "]">>}

\* is_valid_transcription(text), its returns taken in the code's order
is_valid_transcription(text) ==
    LET text_lower == Strip(Lower(text))
    IN  IF Len(text) < 2 THEN FALSE
        ELSE IF Cardinality(CharSet(RemoveSpaces(text))) < 2 THEN FALSE
        ELSE IF text_lower \in noise_patterns THEN FALSE
        ELSE IF \A i \in 1..Len(text) : text[i] \in PunctuationChars THEN FALSE
        ELSE TRUE

\* the text type_text hands to pyautogui.typewrite: both branches add " "
TextToType(text) == Append(text, " ")

\* the condition without the validation: if text
ShouldTypeAnyText(text) == Len(text) > 0

\* if text and self.is_valid_transcription(text)
ShouldType(text) == Len(text) > 0 /\ is_valid_transcription(text)

\* the end of process_speech with an uncaught exception of typewrite: it
\* reaches the except clause of process_speech
AfterTranscriptionTypingUncaught(task, k) ==
    IF ShouldType(task.text)
    THEN IF k < Len(TextToType(task.text))
         THEN [task EXCEPT !.st = "failed", !.calls = @ + 1, !.typed = k,
                           !.logged = {"Transcribed",
                                       "Error processing speech"}]
         ELSE [task EXCEPT !.st = "done", !.calls = @ + 1, !.typed = k,
                           !.logged = {"Transcribed"}]
    ELSE [task EXCEPT !.st = "done", !.logged = {"Filtered out"}]

\* the end of process_speech on a recognised text; pyautogui.typewrite sends
\* the characters one by one and may raise after k of them, which type_text
\* catches and logs
AfterTranscription(task, k) ==
    IF ShouldType(task.text)
    THEN [task EXCEPT !.st = "done", !.calls = @ + 1, !.typed = k,
                      !.logged =
                          IF k < Len(TextToType(task.text))
                          THEN {"Transcribed", "Error typing text"}
                          ELSE {"Transcribed"}]
    ELSE [task EXCEPT !.st = "done", !.logged = {"Filtered out"}]

\* an exception in process_speech before the text is there: the except
\* clause logs it
AfterException(task) ==
    [task EXCEPT !.st = "failed", !.logged = {"Error processing speech"}]

(* ------------------- the service's state as a record ------------------ *)

Service ==
    [is_recording |-> is_recording, audio_buffer |-> audio_buffer,
     silence_start |-> silence_start, speech_start |-> speech_start,
     audio_ring_buffer |-> audio_ring_buffer,
     parecord_process |-> parecord_process,
     recording_file |-> recording_file, state_file |-> state_file,
     pid_file |-> pid_file, tasks |-> tasks, log |-> log]

Becomes(s) ==
    /\ is_recording' = s.is_recording
    /\ audio_buffer' = s.audio_buffer
    /\ silence_start' = s.silence_start
    /\ speech_start' = s.speech_start
    /\ audio_ring_buffer' = s.audio_ring_buffer
    /\ parecord_process' = s.parecord_process
    /\ recording_file' = s.recording_file
    /\ state_file' = s.state_file
    /\ pid_file' = s.pid_file
    /\ tasks' = s.tasks
    /\ log' = s.log

\* threading.Thread(target=self.process_speech, args=(audio_data,)).start()
NewTask(audio_data) ==
    [audio |-> audio_data, st |-> "running", text |-> <<>>, calls |-> 0,
     typed |-> 0, logged |-> {}]

\* a ring that drops the new chunk when it is full
RingAppendKeepsOldest(ring, x, n) ==
    IF Len(ring) >= n THEN ring ELSE Append(ring, x)

\* deque(maxlen=n).append(x)
RingAppend(ring, x, n) ==
    IF n = 0 THEN <<>>
    ELSE IF Len(ring) >= n THEN Append(Tail(ring), x)
    ELSE Append(ring, x)

\* start_recording(), called at time t
start_recording(s, t) ==
    IF ~s.is_recording
    THEN [s EXCEPT !.is_recording = TRUE,
                   !.audio_buffer = s.audio_ring_buffer,
                   !.speech_start = t,
                   !.recording_file = TRUE]
    ELSE s

\* the comparison with <= in place of <
TooShortOrEqual(speech_duration, min_speech) == speech_duration <= min_speech

\* speech_duration < self.MIN_SPEECH_DURATION
TooShort(speech_duration, min_speech) == speech_duration < min_speech

\* the hand-off of stop_recording: a thread is started for a non-empty buffer
HandOff(s) ==
    IF Len(s.audio_buffer) > 0
    THEN [s EXCEPT !.tasks = Append(s.tasks, NewTask(s.audio_buffer))]
    ELSE s

\* stop_recording() without its check of the minimum duration
stop_recording_unchecked(s, t, min_speech) ==
    IF s.is_recording
    THEN [HandOff([s EXCEPT !.is_recording = FALSE,
                            !.recording_file = FALSE])
              EXCEPT !.audio_buffer = <<>>]
    ELSE s

\* stop_recording(), called at time t
stop_recording(s, t, min_speech) ==
    IF s.is_recording
    THEN LET off == [s EXCEPT !.is_recording = FALSE, !.recording_file = FALSE]
         IN  IF TooShort(t - off.speech_start, min_speech)
             THEN [off EXCEPT !.audio_buffer = <<>>]
             ELSE [HandOff(off) EXCEPT !.audio_buffer = <<>>]
    ELSE s

\* the comparison with >= in place of >
IsVoiceOrEqual(r) == r >= SILENCE_THRESHOLD

\* rms > self.SILENCE_THRESHOLD
IsVoice(r) == r > SILENCE_THRESHOLD

\* time.time() - self.silence_start > self.SILENCE_DURATION
SilenceExpired(t, since, duration) == t - since > duration

\* the voice branch without its self.silence_start = None
OnVoiceKeepsTimer(s, chunk, t) ==
    LET r == start_recording(s, t)
    IN  [r EXCEPT !.audio_buffer = Append(r.audio_buffer, chunk)]

\* the voice branch of the loop body
OnVoice(s, chunk, t) ==
    LET r == start_recording(s, t)
    IN  [r EXCEPT !.silence_start = None,
                  !.audio_buffer = Append(r.audio_buffer, chunk)]

\* the silence branch of the loop body
OnSilence(s, chunk, t, duration, min_speech) ==
    IF s.is_recording
    THEN IF s.silence_start = None
         THEN [s EXCEPT !.silence_start = t]
         ELSE IF SilenceExpired(t, s.silence_start, duration)
              THEN stop_recording(s, t, min_speech)
              ELSE [s EXCEPT !.audio_buffer = Append(s.audio_buffer, chunk)]
    ELSE s

\* one iteration of the loop of process_audio_stream on a non-empty chunk
LoopBody(s, chunk, r, t, n, duration, min_speech) ==
    LET a == [s EXCEPT !.audio_ring_buffer =
                           RingAppend(s.audio_ring_buffer, chunk, n)]
    IN  IF IsVoice(r)
        THEN OnVoice(a, chunk, t)
        ELSE OnSilence(a, chunk, t, duration, min_speech)

\* terminate(); wait(timeout=2), and kill(); wait() when that raises: a child
\* that is running exits within the 2 s (in_time) or is killed; terminate()
\* on a child that is gone changes nothing and wait() returns at once
terminate_or_kill(p, in_time) ==
    IF p = "running" THEN (IF in_time THEN "exited" ELSE "killed") ELSE p

\* cleanup() without its call of stop_recording()
cleanup_keeps_recording(s, t, min_speech, in_time) ==
    LET a == [s EXCEPT !.log = s.log \cup {"Shutting down"}]
        c == IF a.parecord_process # "none"
             THEN [a EXCEPT !.parecord_process =
                               terminate_or_kill(a.parecord_process, in_time)]
             ELSE a
    IN  [c EXCEPT !.state_file = FALSE, !.pid_file = FALSE,
                  !.recording_file = FALSE]

\* cleanup(), up to its sys.exit(0), called at time t
cleanup(s, t, min_speech, in_time) ==
    LET a == [s EXCEPT !.log = s.log \cup {"Shutting down"}]
        b == IF a.is_recording THEN stop_recording(a, t, min_speech) ELSE a
        c == IF b.parecord_process # "none"
             THEN [b EXCEPT !.parecord_process =
                               terminate_or_kill(b.parecord_process, in_time)]
             ELSE b
    IN  [c EXCEPT !.state_file = FALSE, !.pid_file = FALSE,
                  !.recording_file = FALSE]

\* the exit status of run(): its finally clause calls cleanup(), whose
\* sys.exit(0) replaces whatever exception was leaving the try block
ExitStatusOfRun(pending) == 0

(* ------------------------- microphone monitor ------------------------- *)

\* pattern in s, for Python strings
Contains(pattern, s) ==
    \E i \in 0..(Len(s) - Len(pattern)) :
        SubSeq(s, i + 1, i + Len(pattern)) = pattern

\* the sources `pactl list sources` reports: id -> name, description
Sources ==
    [s0 |-> [name |-> <<"u", "s", "b">>, description |-> <<"C", "a", "m">>],
     s1 |-> [name |-> <<"p", "c", "i">>, description |-> <<"M", "i", "c">>]]

\* the source of a source output: a listed source, or one that `pactl list
\* sources` does not list ("s9")
OutputSources == {"s0", "s1", "s9"}

\* the result (False, None) has no application info
NoInfo == <<>>

\* default_config of MicrophoneMonitor.load_config
default_config ==
    [monitor_all_devices |-> TRUE, monitor_device |-> <<>>,
     ignore_devices |-> <<>>, indicator_type |-> "tray"]

\* the configurations a config.json may give
Configs ==
    [monitor_all_devices : BOOLEAN,
     monitor_device : {<<>>, <<"U", "s", "b">>},
     ignore_devices : {<<>>, <<<<"U", "S", "B">>>>,
                       <<<<"x">>, <<"i", "c">>>>},
     indicator_type : {"tray", "notification", "osd"}]

\* lines 174-181: the device is not the one monitor_device names
NotMonitored(conf, device) ==
    /\ ~conf.monitor_all_devices
    /\ Len(Lower(conf.monitor_device)) > 0
    /\ ~Contains(Lower(conf.monitor_device), Lower(device.name))
    /\ ~Contains(Lower(conf.monitor_device), Lower(device.description))

\* some pattern of ignore_devices is, case-insensitively, in the device's
\* name or description
MatchesIgnore(conf, device) ==
    \E j \in 1..Len(conf.ignore_devices) :
        \/ Contains(Lower(conf.ignore_devices[j]), Lower(device.name))
        \/ Contains(Lower(conf.ignore_devices[j]), Lower(device.description))

\* lines 184-188, from the j-th pattern on: a matching pattern is logged
\* and `continue` goes on with the next pattern of this inner loop, as a
\* pattern that does not match does; the loop ends by running out of patterns
RECURSIVE IgnoreLoop(_, _, _)
IgnoreLoop(conf, device, j) ==
    IF j > Len(conf.ignore_devices) THEN "end of loop"
    ELSE IF \/ Contains(Lower(conf.ignore_devices[j]), Lower(device.name))
            \/ Contains(Lower(conf.ignore_devices[j]),
                        Lower(device.description))
         THEN IgnoreLoop(conf, device, j + 1)
         ELSE IgnoreLoop(conf, device, j + 1)

\* the body of the loop over the source outputs, for one output: "skip"
\* (next output) or "active" (return True, ...)
CheckOutput(conf, source_id) ==
    IF source_id \in DOMAIN Sources
    THEN IF NotMonitored(conf, Sources[source_id]) THEN "skip"
         ELSE IF IgnoreLoop(conf, Sources[source_id], 1) = "end of loop"
         THEN "active"
         ELSE "skip"
    ELSE "skip"

\* check_mic_activity(): the first source output that is not skipped decides
check_mic_activity(conf, outputs) ==
    IF \E i \in 1..Len(outputs) : CheckOutput(conf, outputs[i]) = "active"
    THEN LET i == CHOOSE k \in 1..Len(outputs) :
                      /\ CheckOutput(conf, outputs[k]) = "active"
                      /\ \A j \in 1..(k - 1) :
                             CheckOutput(conf, outputs[j]) # "active"
         IN  <<TRUE, Sources[outputs[i]].description>>
    ELSE <<FALSE, NoInfo>>

\* the monitor's state as a record
Monitor ==
    [mic_active |-> mic_active, indicator_process |-> indicator_process,
     mon_state_file |-> mon_state_file,
     indicator_pid_file |-> indicator_pid_file, mon_log |-> mon_log,
     call |-> "none"]

MonitorBecomes(m) ==
    /\ mic_active' = m.mic_active
    /\ indicator_process' = m.indicator_process
    /\ mon_state_file' = m.mon_state_file
    /\ indicator_pid_file' = m.indicator_pid_file
    /\ mon_log' = m.mon_log

\* hide_indicator(); started tells whether notify-send could be started: if
\* not, the exception is caught and logged before the files are removed
hide_indicator(m, conf, started) ==
    IF conf.indicator_type = "notification" /\ ~started
    THEN [m EXCEPT !.mon_log = @ \cup {"Failed to hide indicator"}]
    ELSE [m EXCEPT !.indicator_process =
                       IF conf.indicator_type = "tray" THEN FALSE ELSE @,
                   !.mon_state_file = FALSE,
                   !.indicator_pid_file = FALSE]

\* show_indicator(); started tells whether the command it runs (yad,
\* notify-send) could be started: if not, the exception is caught and logged
show_indicator(m, conf, started) ==
    LET h == IF conf.indicator_type = "tray"
             THEN hide_indicator(m, conf, started)
             ELSE m
    IN  IF conf.indicator_type = "osd"
        THEN [h EXCEPT !.mon_state_file = TRUE]
        ELSE IF ~started
        THEN [h EXCEPT !.mon_log = @ \cup {"Failed to show indicator"}]
        ELSE IF conf.indicator_type = "tray"
        THEN [h EXCEPT !.indicator_process = TRUE,
                       !.indicator_pid_file = TRUE,
                       !.mon_state_file = TRUE]
        ELSE [h EXCEPT !.mon_state_file = TRUE]

\* the loop body without its self.mic_active = True
MonitorLoopBodyForgetsActive(m, conf, active, started) ==
    IF active /\ ~m.mic_active
    THEN [show_indicator(m, conf, started) EXCEPT !.call = "show"]
    ELSE IF ~active /\ m.mic_active
    THEN [hide_indicator([m EXCEPT !.mic_active = FALSE], conf, started)
              EXCEPT !.call = "hide"]
    ELSE m

\* the body of the loop of run() after the poll returned active; call is the
\* call the loop makes in this iteration: "show", "hide" or "none"
MonitorLoopBody(m, conf, active, started) ==
    IF active /\ ~m.mic_active
    THEN [show_indicator([m EXCEPT !.mic_active = TRUE], conf, started)
              EXCEPT !.call = "show"]
    ELSE IF ~active /\ m.mic_active
    THEN [hide_indicator([m EXCEPT !.mic_active = FALSE], conf, started)
              EXCEPT !.call = "hide"]
    ELSE m

(* ------------------------------- Init --------------------------------- *)

(* ----------------------- the Whisper model setup ---------------------- *)

\* model_hierarchy, from best to worst
model_hierarchy ==
    <<"large-v3-turbo", "large-v3", "large-v2", "large-v1", "large",
      "medium.en", "medium", "small.en", "small", "base.en", "base",
      "tiny.en", "tiny">>

faster_whisper_models ==
    {"large-v3", "large-v2", "large-v1", "medium", "small", "base", "tiny"}

openai_whisper_models ==
    {"large-v3-turbo", "large-v3", "large-v2", "large-v1", "large",
     "medium.en", "medium", "small.en", "small", "base.en", "base",
     "tiny.en", "tiny"}

\* model_map.get(preferred_model, preferred_model)
model_map(preferred_model) ==
    CASE preferred_model = "large-v3-turbo" -> "large-v3"
      [] preferred_model = "large" -> "large-v1"
      [] preferred_model = "tiny.en" -> "tiny"
      [] preferred_model = "base.en" -> "base"
      [] preferred_model = "small.en" -> "small"
      [] preferred_model = "medium.en" -> "medium"
      [] OTHER -> preferred_model

\* model_hierarchy.index(model) if model in model_hierarchy else 0, counted
\* from 1 as the positions of a sequence are
IndexOrFirst(model) ==
    IF \E k \in 1..Len(model_hierarchy) : model_hierarchy[k] = model
    THEN CHOOSE k \in 1..Len(model_hierarchy) : model_hierarchy[k] = model
    ELSE 1

\* the name of the file of an OpenAI model, without its ".pt"
model_file_map(model) == IF model = "large" THEN "large-v1" ELSE model

\* base_path / f"faster-whisper-{model}", and the model.bin in it
FasterPath(model) == <<"faster-whisper", model>>
FasterBin(model) == <<"faster-whisper", model, "model.bin">>

\* base_path / f"openai-whisper-{model}" / model_file
OpenAIPath(model) == <<"openai-whisper", model, model_file_map(model), ".pt">>

\* Python's (None, None): no name and no path
NoModel == [name |-> "", path |-> <<>>]

\* the loop of find_best_available_model from position i of the hierarchy
RECURSIVE SearchFrom(_, _, _)
SearchFrom(i, faster, files) ==
    IF i > Len(model_hierarchy) THEN NoModel
    ELSE LET model == model_hierarchy[i]
             valid_models == IF faster THEN faster_whisper_models
                             ELSE openai_whisper_models
         IN  IF model \notin valid_models
             THEN SearchFrom(i + 1, faster, files)
             ELSE IF faster
             THEN IF FasterPath(model) \in files /\ FasterBin(model) \in files
                  THEN [name |-> model, path |-> FasterPath(model)]
                  ELSE SearchFrom(i + 1, faster, files)
             ELSE IF OpenAIPath(model) \in files
                  THEN [name |-> model, path |-> OpenAIPath(model)]
                  ELSE SearchFrom(i + 1, faster, files)

\* find_best_available_model(preferred_model, use_faster_whisper) on a disk
\* that holds the given files
find_best_available_model(preferred_model, faster, files) ==
    LET valid_models == IF faster THEN faster_whisper_models
                        ELSE openai_whisper_models
        start_index == IF preferred_model \in valid_models
                       THEN IndexOrFirst(preferred_model)
                       ELSE IndexOrFirst(model_map(preferred_model))
    IN  SearchFrom(start_index, faster, files)

\* load_config's defaults for the two entries setup_whisper_model reads
default_service_config ==
    [whisper_model |-> "large-v3", use_faster_whisper |-> FALSE]

\* setup_whisper_model has read its locals from the configuration; the
\* import of faster_whisper worked or not; the disk holds the given files.
\* using_faster_whisper does not exist before a load has succeeded, and
\* nothing reads it before: FALSE stands for that
SetupInit(conf, available, files) ==
    /\ FASTER_WHISPER_AVAILABLE = available
    /\ disk = files
    /\ service_config = conf
    /\ original_model = conf.whisper_model
    /\ use_faster_whisper = conf.use_faster_whisper
    /\ model_name = conf.whisper_model
    /\ model_path = <<>>
    /\ whisper_model = [impl |-> "none", name |-> "", path |-> <<>>]
    /\ using_faster_whisper = FALSE
    /\ load_calls = <<>>
    /\ spc = "start"

\* setup_whisper_model has returned: the default configuration, no
\* faster_whisper package, large-v3.pt on the disk
LoadedDefault ==
    /\ FASTER_WHISPER_AVAILABLE = FALSE
    /\ disk = {OpenAIPath("large-v3")}
    /\ service_config = default_service_config
    /\ original_model = "large-v3"
    /\ use_faster_whisper = FALSE
    /\ model_name = "large-v3"
    /\ model_path = OpenAIPath("large-v3")
    /\ whisper_model = [impl |-> "openai", name |-> "large-v3",
                        path |-> OpenAIPath("large-v3")]
    /\ using_faster_whisper = FALSE
    /\ load_calls = <<[fn |-> "whisper.load_model",
                       path |-> OpenAIPath("large-v3")]>>
    /\ spc = "returned"

\* DictationService.__init__ with the given configuration
ServiceInit(silence_duration, min_speech_duration, chunks) ==
    /\ SILENCE_DURATION = silence_duration
    /\ MIN_SPEECH_DURATION = min_speech_duration
    /\ pre_record_chunks = chunks
    /\ is_recording = FALSE
    /\ audio_buffer = <<>>
    /\ silence_start = None
    /\ speech_start = None
    /\ audio_ring_buffer = <<>>
    /\ parecord_process = "none"
    /\ recording_file = FALSE
    /\ state_file = TRUE
    /\ pid_file = TRUE
    /\ tasks = <<>>
    /\ pc = "start"
    /\ exit_status = None
    /\ log = {}
    /\ now = 0
    /\ nread = 0
    /\ rms = 0
    /\ quiet_since = None

\* MicrophoneMonitor.__init__ with the given configuration, and the source
\* outputs of the audio server at that time
MonitorInit(conf, outputs) ==
    /\ config = conf
    /\ mic_active = FALSE
    /\ indicator_process = FALSE
    /\ mon_state_file = FALSE
    /\ indicator_pid_file = FALSE
    /\ source_outputs = outputs
    /\ is_active = FALSE
    /\ app_info = NoInfo
    /\ mpc = "loop"
    /\ iterations = <<>>
    /\ mon_log = {}

Init ==
    /\ \E sd \in SilenceDurations, ms \in MinSpeechDurations,
          n \in 0..MaxPreRecord : ServiceInit(sd, ms, n)
    /\ MonitorInit(default_config, <<>>)
    /\ LoadedDefault

(* ------------------------------ run() --------------------------------- *)

cfg == <<SILENCE_DURATION, MIN_SPEECH_DURATION, pre_record_chunks>>

\* subprocess.Popen(cmd, ...) succeeds; the child may already be gone by the
\* time the main thread wakes from time.sleep(0.5)
RunPopen ==
    /\ pc = "start"
    /\ pc' = "wait"
    /\ parecord_process' \in {"running", "exited"}
    /\ UNCHANGED <<wvars, mvars, cfg, is_recording, audio_buffer, silence_start,
                   speech_start, audio_ring_buffer, recording_file,
                   state_file, pid_file, tasks, exit_status, log, now, nread,
                   rms, quiet_since>>

\* subprocess.Popen raises (no parecord binary): the finally clause runs
RunPopenFails ==
    /\ pc = "start"
    /\ Becomes(cleanup(Service, now, MIN_SPEECH_DURATION, TRUE))
    /\ pc' = "exited"
    /\ exit_status' = ExitStatusOfRun(None)
    /\ quiet_since' = None
    /\ UNCHANGED <<wvars, mvars, cfg, now, nread, rms>>

\* if self.parecord_process.poll() is not None: ... sys.exit(1)
RunCheckFailed ==
    /\ pc = "wait"
    /\ parecord_process = "exited"
    /\ Becomes(cleanup([Service EXCEPT !.log = log \cup {"parecord failed"}],
                       now, MIN_SPEECH_DURATION, TRUE))
    /\ pc' = "exited"
    /\ exit_status' = ExitStatusOfRun(1)
    /\ quiet_since' = None
    /\ UNCHANGED <<wvars, mvars, cfg, now, nread, rms>>

\* the child is alive: "Listening for speech...", process_audio_stream()
RunCheckPassed ==
    /\ pc = "wait"
    /\ parecord_process = "running"
    /\ pc' = "loop"
    /\ log' = log \cup {"Listening for speech"}
    /\ UNCHANGED <<wvars, mvars, cfg, is_recording, audio_buffer, silence_start,
                   speech_start, audio_ring_buffer, parecord_process,
                   recording_file, state_file, pid_file, tasks, exit_status,
                   now, nread, rms, quiet_since>>

(* ----------------------- process_audio_stream() ----------------------- *)

\* stdout.read() returns nothing after dt ticks: continue
ReadEmpty(dt) ==
    /\ pc = "loop"
    /\ parecord_process = "running"
    /\ now + dt <= MaxTime
    /\ now' = now + dt
    /\ UNCHANGED <<wvars, mvars, cfg, is_recording, audio_buffer, silence_start,
                   speech_start, audio_ring_buffer, parecord_process,
                   recording_file, state_file, pid_file, tasks, pc,
                   exit_status, log, nread, rms, quiet_since>>

\* stdout.read() returns a chunk of RMS r after dt ticks
ReadChunk(dt, r) ==
    /\ pc = "loop"
    /\ parecord_process = "running"
    /\ nread < MaxChunks
    /\ now + dt <= MaxTime
    /\ now' = now + dt
    /\ nread' = nread + 1
    /\ rms' = r
    /\ Becomes(LoopBody(Service, nread + 1, r, now + dt, pre_record_chunks,
                        SILENCE_DURATION, MIN_SPEECH_DURATION))
    /\ quiet_since' = IF ~is_recording' \/ r > SILENCE_THRESHOLD THEN None
                      ELSE IF quiet_since = None THEN now + dt
                      ELSE quiet_since
    /\ UNCHANGED <<wvars, mvars, cfg, pc, exit_status>>

\* the parecord child exits while the loop runs
ParecordExits ==
    /\ pc = "loop"
    /\ parecord_process = "running"
    /\ parecord_process' = "exited"
    /\ UNCHANGED <<wvars, mvars, cfg, is_recording, audio_buffer, silence_start,
                   speech_start, audio_ring_buffer, recording_file,
                   state_file, pid_file, tasks, pc, exit_status, log, now,
                   nread, rms, quiet_since>>

\* poll() is not None: the loop ends, run()'s finally clause calls cleanup()
LoopEnds ==
    /\ pc = "loop"
    /\ parecord_process = "exited"
    /\ Becomes(cleanup(Service, now, MIN_SPEECH_DURATION, TRUE))
    /\ pc' = "exited"
    /\ exit_status' = ExitStatusOfRun(None)
    /\ quiet_since' = None
    /\ UNCHANGED <<wvars, mvars, cfg, now, nread, rms>>

\* an exception in the loop body (a read of an odd number of bytes makes
\* np.frombuffer raise) is logged, the loop ends, cleanup() runs
StreamError ==
    /\ pc = "loop"
    /\ parecord_process = "running"
    /\ \E in_time \in BOOLEAN :
           Becomes(cleanup([Service EXCEPT
                               !.log = log \cup {"Error processing audio stream"}],
                           now, MIN_SPEECH_DURATION, in_time))
    /\ pc' = "exited"
    /\ exit_status' = ExitStatusOfRun(None)
    /\ quiet_since' = None
    /\ UNCHANGED <<wvars, mvars, cfg, now, nread, rms>>

\* SIGTERM or SIGINT, at any point of run(): the handler cleanup() runs in the
\* main thread, its SystemExit leaves run() through the finally clause, which
\* calls cleanup() once more (on a child that is gone by then)
Signal ==
    /\ pc \in {"start", "wait", "loop"}
    /\ \E in_time \in BOOLEAN :
           Becomes(cleanup(cleanup(Service, now, MIN_SPEECH_DURATION, in_time),
                           now, MIN_SPEECH_DURATION, TRUE))
    /\ pc' = "exited"
    /\ exit_status' = ExitStatusOfRun(0)
    /\ quiet_since' = None
    /\ UNCHANGED <<wvars, mvars, cfg, now, nread, rms>>

(* -------------------------- process_speech() -------------------------- *)

\* the thread of task i gets a text from the model
Transcribe(i, text) ==
    /\ pc # "exited"
    /\ i \in 1..Len(tasks)
    /\ tasks[i].st = "running"
    /\ tasks' = [tasks EXCEPT ![i] = [@ EXCEPT !.st = "transcribed",
                                              !.text = text]]
    /\ UNCHANGED <<wvars, mvars, cfg, is_recording, audio_buffer, silence_start,
                   speech_start, audio_ring_buffer, parecord_process,
                   recording_file, state_file, pid_file, pc, exit_status,
                   log, now, nread, rms, quiet_since>>

\* filtering, resampling or the model call raises in the thread of task i
TranscribeFails(i) ==
    /\ pc # "exited"
    /\ i \in 1..Len(tasks)
    /\ tasks[i].st = "running"
    /\ tasks' = [tasks EXCEPT ![i] = AfterException(@)]
    /\ UNCHANGED <<wvars, mvars, cfg, is_recording, audio_buffer, silence_start,
                   speech_start, audio_ring_buffer, parecord_process,
                   recording_file, state_file, pid_file, pc, exit_status,
                   log, now, nread, rms, quiet_since>>

\* the thread of task i validates its text and types it; k characters reach
\* the focused window
Deliver(i) ==
    /\ pc # "exited"
    /\ i \in 1..Len(tasks)
    /\ tasks[i].st = "transcribed"
    /\ \E k \in 0..Len(TextToType(tasks[i].text)) :
           tasks' = [tasks EXCEPT ![i] = AfterTranscription(@, k)]
    /\ UNCHANGED <<wvars, mvars, cfg, is_recording, audio_buffer, silence_start,
                   speech_start, audio_ring_buffer, parecord_process,
                   recording_file, state_file, pid_file, pc, exit_status,
                   log, now, nread, rms, quiet_since>>

\* texts the model returns in a run of the whole service
SampleTexts == {<<>>, <<"h", "i">>}

TaskIds == 1..MaxChunks

Next ==
    \/ RunPopen
    \/ RunPopenFails
    \/ RunCheckFailed
    \/ RunCheckPassed
    \/ \E dt \in ReadTimes : ReadEmpty(dt)
    \/ \E dt \in ReadTimes, r \in RmsLevels : ReadChunk(dt, r)
    \/ ParecordExits
    \/ LoopEnds
    \/ StreamError
    \/ Signal
    \/ \E i \in TaskIds, text \in SampleTexts : Transcribe(i, text)
    \/ \E i \in TaskIds : TranscribeFails(i)
    \/ \E i \in TaskIds : Deliver(i)

vars == <<svars, mvars, wvars>>

Spec == Init /\ [][Next]_vars

(* ======================= properties of the service ==================== *)

\* the step handles one non-empty chunk in process_audio_stream
ChunkHandled == nread' = nread + 1

\* the step calls stop_recording from the audio loop: a chunk at or below the
\* threshold arrives while recording, the silence timer set and expired
LoopCallsStop ==
    /\ ChunkHandled
    /\ is_recording
    /\ rms' <= SILENCE_THRESHOLD
    /\ silence_start # None
    /\ now' - silence_start > SILENCE_DURATION

\* the step calls stop_recording from cleanup()
CleanupCallsStop == pc # "exited" /\ pc' = "exited" /\ is_recording

\* the step calls stop_recording while recording
StopCalled == LoopCallsStop \/ CleanupCallsStop

\* C1: a chunk handled while not recording starts the recording when its RMS
\* is strictly above SILENCE_THRESHOLD; at or below the threshold the service
\* stays not recording and the segment buffer is unchanged
C1_VoiceStartsRecording ==
    [][(ChunkHandled /\ ~is_recording) =>
           IF rms' > SILENCE_THRESHOLD
           THEN is_recording'
           ELSE ~is_recording' /\ audio_buffer' = audio_buffer]_vars

\* chunk 1 was silence and left the service idle, chunk 2 was voice and
\* started the recording (two chunks of pre-roll)
C1_Witness ==
    /\ nread = 2
    /\ rms > SILENCE_THRESHOLD
    /\ is_recording
    /\ audio_buffer = <<1, 2, 2>>

\* C2: the audio loop ends a recording only on a below-threshold chunk that
\* arrives more than SILENCE_DURATION after the first chunk of the current
\* run of below-threshold chunks of this recording; a voice chunk clears the
\* silence timer, and while recording the timer is the start of that run
C2_SilenceHysteresis ==
    /\ [][(ChunkHandled /\ is_recording /\ ~is_recording') =>
              /\ rms' <= SILENCE_THRESHOLD
              /\ quiet_since # None
              /\ now' - quiet_since > SILENCE_DURATION]_vars
    /\ [][(ChunkHandled /\ rms' > SILENCE_THRESHOLD) =>
              silence_start' = None]_vars
    /\ [](is_recording => silence_start = quiet_since)

\* a second recording, begun while the timer of the first was still set, has
\* been ended by the loop
C2_Witness ==
    /\ pc = "loop"
    /\ ~is_recording
    /\ Len(tasks) = 2
    /\ silence_start # None
    /\ rms <= SILENCE_THRESHOLD

\* the chunks nread - k + 1 .. nread, in arrival order
LastChunks(k) == [i \in 1..k |-> nread - k + i]

\* C3: the ring buffer holds the last min(nread, pre_record_chunks) chunks in
\* arrival order, so never more than pre_record_chunks; when recording
\* starts the segment buffer is the ring buffer's content in arrival order,
\* followed by the chunk that started the recording
C3_PreRoll ==
    /\ [](/\ Len(audio_ring_buffer) <= pre_record_chunks
          /\ audio_ring_buffer =
                 LastChunks(IF nread < pre_record_chunks THEN nread
                            ELSE pre_record_chunks))
    /\ [][(ChunkHandled /\ ~is_recording /\ is_recording') =>
              audio_buffer' = Append(audio_ring_buffer', nread')]_vars

\* a full ring that has evicted chunks 1 and 2 starts a recording on chunk 4
C3_Witness ==
    /\ pre_record_chunks = 2
    /\ nread = 4
    /\ is_recording
    /\ audio_ring_buffer = <<3, 4>>
    /\ audio_buffer = <<3, 4, 4>>

\* C4: a step starts a transcription task exactly when it calls
\* stop_recording while recording with at least MIN_SPEECH_DURATION elapsed
\* and a non-empty segment buffer; it starts one task, which carries the
\* buffered chunks in order and is still running when the call has returned;
\* the tasks started earlier are not touched
C4_HandOff ==
    [][/\ (Len(tasks') > Len(tasks)) <=>
              (/\ StopCalled
               /\ now' - speech_start >= MIN_SPEECH_DURATION
               /\ Len(audio_buffer) > 0)
       /\ Len(tasks') > Len(tasks) =>
              /\ Len(tasks') = Len(tasks) + 1
              /\ tasks'[Len(tasks')].audio = audio_buffer
              /\ tasks'[Len(tasks')].st = "running"
              /\ SubSeq(tasks', 1, Len(tasks)) = tasks
       /\ Len(tasks') >= Len(tasks)]_vars

\* the loop is recording again, and has read chunks, while the task of the
\* first utterance is still running
C4_Witness ==
    /\ pc = "loop"
    /\ Len(tasks) = 1
    /\ tasks[1].st = "running"
    /\ is_recording
    /\ Len(audio_buffer) >= 2

\* C5: a call of stop_recording while recording, with less than
\* MIN_SPEECH_DURATION elapsed since speech_start, empties the segment
\* buffer, starts no task and leaves the service not recording
C5_MinimumSpeechDuration ==
    [][(StopCalled /\ now' - speech_start < MIN_SPEECH_DURATION) =>
           /\ audio_buffer' = <<>>
           /\ tasks' = tasks
           /\ ~is_recording']_vars

\* the audio loop itself has ended a recording that was too short
C5_Witness ==
    /\ pc = "loop"
    /\ ~is_recording
    /\ speech_start # None
    /\ now - speech_start < MIN_SPEECH_DURATION
    /\ tasks = <<>>
    /\ audio_buffer = <<>>

(* ================= properties of a transcription thread =============== *)

\* C6: a finished transcription task has called type_text exactly when its
\* text is non-empty and is_valid_transcription accepts it, and otherwise has
\* typed nothing and only logged the text as filtered out; no task calls
\* type_text more than once, and none before its text is there
C6_TypedIffValid ==
    \A i \in 1..Len(tasks) :
        /\ tasks[i].calls <= 1
        /\ tasks[i].st \in {"running", "transcribed", "failed"} =>
               tasks[i].calls = 0 /\ tasks[i].typed = 0
        /\ tasks[i].st = "done" =>
               /\ (tasks[i].calls = 1) <=>
                      (tasks[i].text # <<>>
                           /\ is_valid_transcription(tasks[i].text))
               /\ tasks[i].calls = 0 =>
                      /\ tasks[i].typed = 0
                      /\ tasks[i].logged = {"Filtered out"}
               /\ tasks[i].calls = 1 => "Filtered out" \notin tasks[i].logged

\* the noise pattern "bye", capitalised, was recognised and filtered out
C6_Witness ==
    /\ tasks[1].st = "done"
    /\ tasks[1].text = <<"B", "y", "e">>
    /\ tasks[1].calls = 0
    /\ tasks[1].logged = {"Filtered out"}

\* C7 as stated: after an exception in a transcription task nothing has been
\* typed for its segment
C7_NothingTypedAfterException ==
    \A i \in 1..Len(tasks) :
        (\/ "Error processing speech" \in tasks[i].logged
         \/ "Error typing text" \in tasks[i].logged) => tasks[i].typed = 0

\* the step is an exception in the thread of task i, caught and logged
TaskFails(i) ==
    /\ i \in 1..Len(tasks)
    /\ Len(tasks') = Len(tasks)
    /\ tasks[i].logged \cap {"Error processing speech",
                             "Error typing text"} = {}
    /\ tasks'[i].logged \cap {"Error processing speech",
                              "Error typing text"} # {}

\* C7, amended: an exception in a transcription task is caught and logged
\* and leaves is_recording, the segment buffer, the silence timer, the ring
\* buffer and the position of the audio loop as they were; raised before
\* type_text is called (filtering, resampling, model call) it leaves nothing
\* typed for the segment; raised by the typing it is logged by type_text, the
\* task ends normally and the characters typed before it stay typed
C7_LogAndContinue ==
    [][\A i \in 1..MaxChunks : TaskFails(i) =>
           /\ UNCHANGED <<is_recording, audio_buffer, silence_start,
                          speech_start, audio_ring_buffer, pc,
                          parecord_process, exit_status>>
           /\ \A j \in 1..Len(tasks) : j # i => tasks'[j] = tasks[j]
           /\ tasks'[i].logged \in {{"Error processing speech"},
                                    {"Transcribed", "Error typing text"}}
           /\ "Error processing speech" \in tasks'[i].logged =>
                  /\ tasks'[i].st = "failed"
                  /\ tasks'[i].calls = 0
                  /\ tasks'[i].typed = 0
           /\ "Error typing text" \in tasks'[i].logged =>
                  /\ tasks'[i].st = "done"
                  /\ tasks'[i].calls = 1
                  /\ tasks'[i].typed < Len(TextToType(tasks'[i].text))]_vars

\* the first task has failed with nothing typed; the loop, still running,
\* has detected a second utterance and handed it off
C7_Witness ==
    /\ pc = "loop"
    /\ Len(tasks) = 2
    /\ tasks[1].st = "failed"
    /\ tasks[1].typed = 0
    /\ tasks[2].st = "running"

\* C10 as stated: when run() finds parecord gone after the startup wait, the
\* failure is logged, the audio loop is never entered and the process ends
\* with exit status 1
C10_ExitStatusOne ==
    "parecord failed" \in log =>
        /\ "Listening for speech" \notin log
        /\ pc = "exited"
        /\ exit_status = 1

\* the step is a run of cleanup() to its end
CleanupFinishes == pc # "exited" /\ pc' = "exited"

\* C11: once cleanup() has finished the service is not recording, no parecord
\* child is left running, the state file, the PID file and
\* /tmp/dictation-recording are gone and the exit status is 0; the child is
\* killed only by cleanup(), and only a child that was still running
C11_CleanupOnExit ==
    /\ [](pc = "exited" =>
             /\ ~is_recording
             /\ parecord_process \in {"none", "exited", "killed"}
             /\ ~state_file
             /\ ~pid_file
             /\ ~recording_file
             /\ exit_status = 0
             /\ "Shutting down" \in log)
    /\ [][parecord_process' = "killed" /\ parecord_process # "killed" =>
             CleanupFinishes /\ parecord_process = "running"]_vars
    /\ [][~CleanupFinishes => pc' # "exited" \/ pc = "exited"]_vars

\* cleanup() ran while the first segment was being recorded: the segment was
\* handed off, and the child had to be killed
C11_Witness ==
    /\ pc = "exited"
    /\ parecord_process = "killed"
    /\ nread = 1
    /\ Len(tasks) = 1
    /\ speech_start # None
    /\ exit_status = 0

\* C13 as stated: while recording, a chunk at or below the threshold that
\* arrives before the silence timeout has expired (no run of quiet chunks is
\* under way, or the run began at most SILENCE_DURATION ago) is appended to
\* the segment buffer
C13_QuietChunksAppended ==
    [][(/\ ChunkHandled
        /\ is_recording
        /\ rms' <= SILENCE_THRESHOLD
        /\ (quiet_since = None \/ now' - quiet_since <= SILENCE_DURATION)) =>
           audio_buffer' = Append(audio_buffer, nread')]_vars

(* ------------------- one transcription thread alone ------------------- *)

\* the characters of the short texts
Alphabet == {"a", "B", ".", "?", " "}

\* every text of at most MaxTextLen characters of Alphabet
ShortTexts == UNION {[1..n -> Alphabet] : n \in 0..MaxTextLen}

\* str.capitalize() on a lower-case text
Capitalize(text) ==
    [i \in 1..Len(text) |-> IF i = 1 THEN UpperChar(text[i]) ELSE text[i]]

\* the texts the model may return: the short ones, and the noise patterns as
\* they are, capitalised, in upper case, with a space around them and with a
\* full stop
AllTexts ==
    ShortTexts
        \cup noise_patterns
        \cup {Capitalize(t) : t \in noise_patterns}
        \cup {[i \in 1..Len(t) |-> UpperChar(t[i])] : t \in noise_patterns}
        \cup {<<" ">> \o t \o <<" ">> : t \in noise_patterns}
        \cup {Append(t, ".") : t \in noise_patterns}

\* the service in its audio loop, its first utterance just handed off:
\* chunk 1 was voice, chunks 2 and 3 silence, one tick apart
SpeechStart ==
    /\ SILENCE_DURATION = 0
    /\ MIN_SPEECH_DURATION = 0
    /\ pre_record_chunks = 0
    /\ is_recording = FALSE
    /\ audio_buffer = <<>>
    /\ silence_start = 0
    /\ speech_start = 0
    /\ audio_ring_buffer = <<>>
    /\ parecord_process = "running"
    /\ recording_file = FALSE
    /\ state_file = TRUE
    /\ pid_file = TRUE
    /\ tasks = <<NewTask(<<1>>)>>
    /\ pc = "loop"
    /\ exit_status = None
    /\ log = {"Listening for speech"}
    /\ now = 1
    /\ nread = 3
    /\ rms = 0
    /\ quiet_since = None
    /\ MonitorInit(default_config, <<>>)
    /\ LoadedDefault

SpeechNext ==
    \/ \E text \in AllTexts : Transcribe(1, text)
    \/ TranscribeFails(1)
    \/ Deliver(1)

SpecSpeech == SpeechStart /\ [][SpeechNext]_vars

(* ---------------------- MicrophoneMonitor.run() ----------------------- *)

\* an application starts recording from a source: pactl lists one more
\* source output
OutputStarts(source_id) ==
    /\ mpc = "loop"
    /\ Len(source_outputs) < MaxOutputs
    /\ source_outputs' = Append(source_outputs, source_id)
    /\ UNCHANGED <<wvars, svars, config, mic_active, indicator_process,
                   mon_state_file, indicator_pid_file, is_active, app_info,
                   mpc, iterations, mon_log>>

\* an application stops recording: its source output is gone
OutputStops(i) ==
    /\ mpc = "loop"
    /\ i \in 1..Len(source_outputs)
    /\ source_outputs' = SubSeq(source_outputs, 1, i - 1)
                             \o SubSeq(source_outputs, i + 1,
                                       Len(source_outputs))
    /\ UNCHANGED <<wvars, svars, config, mic_active, indicator_process,
                   mon_state_file, indicator_pid_file, is_active, app_info,
                   mpc, iterations, mon_log>>

\* one iteration of the loop: the poll, the branch and the sleep
Iterate(started) ==
    /\ mpc = "loop"
    /\ Len(iterations) < MaxPolls
    /\ LET polled == check_mic_activity(config, source_outputs)
           after == MonitorLoopBody(Monitor, config, polled[1], started)
       IN  /\ is_active' = polled[1]
           /\ app_info' = polled[2]
           /\ MonitorBecomes(after)
           /\ iterations' = Append(iterations,
                  [is_active |-> polled[1], was_active |-> mic_active,
                   call |-> after.call])
    /\ UNCHANGED <<wvars, svars, config, source_outputs, mpc>>

\* the poll raises something other than CalledProcessError (pactl is not
\* installed): the loop logs it, sleeps and goes on
PollRaises ==
    /\ mpc = "loop"
    /\ mon_log' = mon_log \cup {"Monitor error"}
    /\ UNCHANGED <<wvars, svars, config, mic_active, indicator_process,
                   mon_state_file, indicator_pid_file, source_outputs,
                   is_active, app_info, mpc, iterations>>

\* SIGTERM or SIGINT: cleanup() hides the indicator and exits
MonitorSignal(started) ==
    /\ mpc = "loop"
    /\ MonitorBecomes(hide_indicator(Monitor, config, started))
    /\ mpc' = "exited"
    /\ UNCHANGED <<wvars, svars, config, source_outputs, is_active, app_info,
                   iterations>>

MonitorNext ==
    \/ \E source_id \in OutputSources : OutputStarts(source_id)
    \/ \E i \in 1..MaxOutputs : OutputStops(i)
    \/ \E started \in BOOLEAN : Iterate(started)
    \/ PollRaises
    \/ \E started \in BOOLEAN : MonitorSignal(started)

MonitorStart ==
    /\ ServiceInit(1, 0, 0)
    /\ \E conf \in Configs : MonitorInit(conf, <<>>)
    /\ LoadedDefault

\* the microphone monitor alone
SpecMonitor == MonitorStart /\ [][MonitorNext]_vars

(* ======================= properties of the monitor ==================== *)

\* C8: the loop calls show_indicator exactly in the iterations whose poll
\* reports active while mic_active is false, and hide_indicator exactly in
\* those whose poll reports inactive while mic_active is true; between two
\* of its show_indicator calls lies one of its hide_indicator calls; after a
\* completed iteration mic_active is what the poll of that iteration reported
C8_IndicatorFollowsPolls ==
    /\ \A i \in 1..Len(iterations) :
           /\ (iterations[i].call = "show") <=>
                  (iterations[i].is_active /\ ~iterations[i].was_active)
           /\ (iterations[i].call = "hide") <=>
                  (~iterations[i].is_active /\ iterations[i].was_active)
           /\ i > 1 => iterations[i].was_active = iterations[i - 1].is_active
    /\ \A i, j \in 1..Len(iterations) :
           (i < j /\ iterations[i].call = "show"
                  /\ iterations[j].call = "show") =>
               \E k \in (i + 1)..(j - 1) : iterations[k].call = "hide"
    /\ iterations # <<>> =>
           mic_active = iterations[Len(iterations)].is_active

\* the loop has shown, hidden and shown the indicator again
C8_Witness ==
    /\ Len(iterations) = 3
    /\ iterations[1].call = "show"
    /\ iterations[2].call = "hide"
    /\ iterations[3].call = "show"
    /\ mic_active

\* every source output is on a listed source that ignore_devices matches
AllOutputsIgnored ==
    /\ source_outputs # <<>>
    /\ \A i \in 1..Len(source_outputs) :
           /\ source_outputs[i] \in DOMAIN Sources
           /\ MatchesIgnore(config, Sources[source_outputs[i]])

\* C9 as stated: a poll never reports active on account of a source output
\* whose device name or description contains a pattern of ignore_devices,
\* and reports (False, None) when every source output is on such a device
C9_IgnoredDevicesNeverActive ==
    LET polled == check_mic_activity(config, source_outputs)
    IN  /\ polled[1] =>
               \A id \in DOMAIN Sources :
                   Sources[id].description = polled[2] =>
                       ~MatchesIgnore(config, Sources[id])
        /\ AllOutputsIgnored => polled = <<FALSE, NoInfo>>

(* ------------------------ setup_whisper_model() ----------------------- *)

\* the models the configuration may name: six of the hierarchy and one
\* that is not in it
PreferredModels ==
    {"large-v3-turbo", "large-v3", "large", "medium.en", "tiny", "custom"}

\* the models that may be on the disk: OpenAI model files, complete
\* faster-whisper directories, faster-whisper directories without model.bin
OpenAIOnDisk == {"large-v3", "large", "medium.en", "tiny"}
FasterOnDisk == {"large-v3", "medium", "tiny"}
FasterEmptyDirs == {"large-v2"}

Disks ==
    {{OpenAIPath(m) : m \in O}
        \cup {FasterPath(m) : m \in F \cup E}
        \cup {FasterBin(m) : m \in F} :
     O \in SUBSET OpenAIOnDisk, F \in SUBSET FasterOnDisk,
     E \in SUBSET FasterEmptyDirs}

\* lines 378-400: the search for the preferred implementation, then for the
\* other one; sys.exit(1) when both find nothing, else the configuration
\* takes the name that was found
SetupFind ==
    /\ spc = "start"
    /\ LET first == find_best_available_model(original_model,
                                              use_faster_whisper, disk)
           faster == IF first.name = "" THEN ~use_faster_whisper
                     ELSE use_faster_whisper
           found == IF first.name = ""
                    THEN find_best_available_model(original_model, faster,
                                                   disk)
                    ELSE first
       IN  /\ use_faster_whisper' = faster
           /\ model_name' = found.name
           /\ model_path' = found.path
           /\ IF found.name = ""
              THEN spc' = "exited" /\ UNCHANGED service_config
              ELSE /\ spc' = "load"
                   /\ service_config' =
                          [service_config EXCEPT !.whisper_model = found.name]
    /\ UNCHANGED <<svars, mvars, FASTER_WHISPER_AVAILABLE, disk,
                   original_model, whisper_model, using_faster_whisper,
                   load_calls>>

\* lines 403-422: WhisperModel(str(model_path), ...) returns (ok) or raises;
\* when it raises the best OpenAI model is searched for
LoadFasterWhisper(ok) ==
    /\ spc = "load"
    /\ use_faster_whisper /\ FASTER_WHISPER_AVAILABLE
    /\ load_calls' = Append(load_calls,
                            [fn |-> "WhisperModel", path |-> model_path])
    /\ IF ok
       THEN /\ whisper_model' = [impl |-> "faster", name |-> model_name,
                                 path |-> model_path]
            /\ using_faster_whisper' = TRUE
            /\ spc' = "returned"
            /\ UNCHANGED <<use_faster_whisper, model_name, model_path>>
       ELSE LET found == find_best_available_model(original_model, FALSE,
                                                   disk)
            IN  /\ use_faster_whisper' = FALSE
                /\ model_name' = found.name
                /\ model_path' = found.path
                /\ spc' = "openai"
                /\ UNCHANGED <<whisper_model, using_faster_whisper>>
    /\ UNCHANGED <<svars, mvars, FASTER_WHISPER_AVAILABLE, disk,
                   service_config, original_model>>

\* line 403 is false: on to line 425
SkipFasterWhisper ==
    /\ spc = "load"
    /\ ~(use_faster_whisper /\ FASTER_WHISPER_AVAILABLE)
    /\ spc' = "openai"
    /\ UNCHANGED <<svars, mvars, FASTER_WHISPER_AVAILABLE, disk,
                   service_config, original_model, use_faster_whisper,
                   model_name, model_path, whisper_model,
                   using_faster_whisper, load_calls>>

\* lines 425-440: sys.exit(1) without a model name; else
\* whisper.load_model(str(model_path), ...) returns (ok), or raises and the
\* service exits
LoadOpenAIWhisper(ok) ==
    /\ spc = "openai"
    /\ IF ~(~use_faster_whisper \/ ~FASTER_WHISPER_AVAILABLE)
       THEN spc' = "returned"
            /\ UNCHANGED <<whisper_model, using_faster_whisper, load_calls>>
       ELSE IF model_name = ""
       THEN spc' = "exited"
            /\ UNCHANGED <<whisper_model, using_faster_whisper, load_calls>>
       ELSE /\ load_calls' = Append(load_calls, [fn |-> "whisper.load_model",
                                                 path |-> model_path])
            /\ IF ok
               THEN /\ whisper_model' = [impl |-> "openai",
                                         name |-> model_name,
                                         path |-> model_path]
                    /\ using_faster_whisper' = FALSE
                    /\ spc' = "returned"
               ELSE spc' = "exited"
                    /\ UNCHANGED <<whisper_model, using_faster_whisper>>
    /\ UNCHANGED <<svars, mvars, FASTER_WHISPER_AVAILABLE, disk,
                   service_config, original_model, use_faster_whisper,
                   model_name, model_path>>

SetupNext ==
    \/ SetupFind
    \/ \E ok \in BOOLEAN : LoadFasterWhisper(ok)
    \/ SkipFasterWhisper
    \/ \E ok \in BOOLEAN : LoadOpenAIWhisper(ok)

SetupStart ==
    /\ ServiceInit(1, 0, 0)
    /\ MonitorInit(default_config, <<>>)
    /\ \E model \in PreferredModels, faster \in BOOLEAN,
          available \in BOOLEAN, files \in Disks :
           SetupInit([whisper_model |-> model,
                      use_faster_whisper |-> faster], available, files)

\* setup_whisper_model alone
SpecSetup == SetupStart /\ [][SetupNext]_vars

(* ======================== properties of the setup ===================== *)

\* the path of an OpenAI model file
IsOpenAIModelFile(path) == \E m \in openai_whisper_models : path = OpenAIPath(m)

\* C12 as stated: without the faster_whisper package every load is a call of
\* whisper.load_model on an OpenAI model file that is on the disk
C12_OpenAIOnly ==
    ~FASTER_WHISPER_AVAILABLE =>
        \A i \in 1..Len(load_calls) :
            /\ load_calls[i].fn = "whisper.load_model"
            /\ IsOpenAIModelFile(load_calls[i].path)
            /\ load_calls[i].path \in disk

\* C14 as stated: once setup_whisper_model has returned, the configuration
\* names the model that was loaded and using_faster_whisper tells whether
\* Faster Whisper loaded it
C14_ConfigNamesLoadedModel ==
    spc = "returned" =>
        /\ service_config.whisper_model = whisper_model.name
        /\ using_faster_whisper = (whisper_model.impl = "faster")

====
